---- MODULE Spec2Model ----
(***************************************************************************)
(* Retrieval pipeline of the theology knowledge-base service: the response *)
(* cache (CacheManager), the chunker (chunk_document), the retrieval       *)
(* orchestrator (VectorSearchEngine.search) and the index build            *)
(* (train_and_add_vectors, build_faiss_index).                             *)
(*                                                                         *)
(* Each component has its own specification (SpecCache, SpecChunk,         *)
(* SpecSearch, SpecBuild); the variables of the other components stay at   *)
(* their idle values.                                                      *)
(***************************************************************************)
EXTENDS Integers, Sequences, FiniteSets, TLC

VARIABLES
    \* ---- CacheManager (src/main.py:414-456)
    cache,        \* self.cache: dict in insertion order, a sequence of entries
    max_size,     \* self.max_size
    duration,     \* self.duration (TTL, in clock ticks)
    now,          \* datetime.now().timestamp()
    lastCall,     \* the last get/set call: which, and what it returned
    setLog,       \* the set calls so far: how many, the first query, the queries
    \* ---- chunk_document (src/main.py:126-152, src/data_processor.py:180-217)
    processor,    \* which class: "main" (DocumentProcessor) or
                  \* "data_processor" (TheologyDocumentProcessor)
    content,      \* the document text, a sequence of characters
    chunk_size,   \* self.chunk_size
    overlap,      \* self.overlap
    chunkOut,     \* the outcome of the chunk_document call
    \* ---- VectorSearchEngine / FAISSIndexManager (src/main.py:155-360)
    index,        \* faiss_manager.index: None or the FAISS index
    documents,    \* search_engine.documents, the document store
    searchOut,    \* the outcome of the VectorSearchEngine.search call
    \* ---- index build (src/main.py:180-195, src/data_processor.py:246-274)
    is_trained,   \* faiss_manager.is_trained
    build,        \* the running build: its path, index type, number of
                  \* vectors and position
    indexOps,     \* the train/add calls made on the current index instance
    managerOut,   \* the outcome of a FAISSIndexManager.search call
    \* ---- vector_search, the /api/search handler (src/main.py:514-574)
    requests,     \* per request slot: its position in the handler and its data
    completed,    \* the request whose handler has just returned
    running,      \* the request the event loop is running (0: none)
    served,       \* the questions received so far
    \* ---- load_documents_from_directory (src/main.py:97-119,
    \*      src/data_processor.py:48-92)
    files,        \* the files under the directory, in the order of rglob
    ingest,       \* the running load: its loader, position, passages so far,
                  \* counters and what it reports at the end
    \* ---- repeated chunk_document calls on one processor
    chunkCalls    \* the calls so far: source, time and outcome of each

cacheVars == <<cache, max_size, duration, now, lastCall, setLog>>
chunkVars == <<processor, content, chunk_size, overlap, chunkOut>>
searchVars == <<index, documents, searchOut>>
buildVars == <<is_trained, build, indexOps, managerOut>>
requestVars == <<requests, completed, running, served>>
ingestVars == <<files, ingest>>
rechunkVars == <<chunkCalls>>
vars == <<cacheVars, chunkVars, searchVars, buildVars, requestVars, ingestVars,
          rechunkVars>>

\* what the operations of one component leave alone
notCache == <<chunkVars, searchVars, buildVars, requestVars, ingestVars,
              rechunkVars>>
notChunk == <<cacheVars, searchVars, buildVars, requestVars, ingestVars,
              rechunkVars>>
notSearch == <<cacheVars, chunkVars, buildVars, requestVars, ingestVars,
               rechunkVars>>
notBuild == <<cacheVars, chunkVars, requestVars, ingestVars, rechunkVars>>
notRequest == <<max_size, duration, lastCall, setLog, chunkVars, searchVars,
               buildVars, ingestVars, rechunkVars>>
notIngest == <<cacheVars, chunkVars, searchVars, buildVars, requestVars,
               rechunkVars>>
notRechunk == <<cache, max_size, duration, lastCall, setLog, searchVars,
                buildVars, requestVars, ingestVars>>

\* ------------------------------------------------------------------------
\* Bounds of the model
\* ------------------------------------------------------------------------
CacheSize == 2      \* Config.CACHE_SIZE, scaled down from 2000
CacheDuration == 2  \* Config.CACHE_DURATION, scaled down from 24*3600 s to ticks
MaxTime == 3        \* the clock stops advancing here
MaxSets == 3        \* set calls per run
MaxRuns == 2        \* runs of equal characters a document is made of
MaxK == 2           \* largest top_k of a search request
MaxVectors == 4     \* largest index (ntotal) and document store
MaxFiles == 3       \* files under the documents directory

\* ------------------------------------------------------------------------
\* Generic helpers
\* ------------------------------------------------------------------------
None == "None"

Min(a, b) == IF a <= b THEN a ELSE b

RemoveAt(s, i) == [j \in 1..(Len(s) - 1) |-> IF j < i THEN s[j] ELSE s[j + 1]]

IsSpace(c) == c = " "

\* str.lower() on one character
LowerChar(c) == CASE c = "A" -> "a" [] c = "B" -> "b" [] c = "C" -> "c" [] OTHER -> c

\* str.lower()
Lower(s) == [i \in 1..Len(s) |-> LowerChar(s[i])]

\* number of leading whitespace characters of s[lo..hi] (halving, so that
\* the evaluation depth stays logarithmic)
RECURSIVE LeadingSpaces(_, _, _)
LeadingSpaces(s, lo, hi) ==
    IF lo > hi THEN 0
    ELSE IF lo = hi THEN (IF IsSpace(s[lo]) THEN 1 ELSE 0)
    ELSE LET mid == (lo + hi) \div 2
             left == LeadingSpaces(s, lo, mid)
         IN  IF left = mid - lo + 1
             THEN left + LeadingSpaces(s, mid + 1, hi)
             ELSE left

\* number of trailing whitespace characters of s[lo..hi]
RECURSIVE TrailingSpaces(_, _, _)
TrailingSpaces(s, lo, hi) ==
    IF lo > hi THEN 0
    ELSE IF lo = hi THEN (IF IsSpace(s[lo]) THEN 1 ELSE 0)
    ELSE LET mid == (lo + hi) \div 2
             right == TrailingSpaces(s, mid + 1, hi)
         IN  IF right = hi - mid
             THEN right + TrailingSpaces(s, lo, mid)
             ELSE right

\* str.strip(): drop leading and trailing whitespace
Strip(s) ==
    LET a == LeadingSpaces(s, 1, Len(s))
    IN  IF a = Len(s) THEN <<>>
        ELSE SubSeq(s, a + 1, Len(s) - TrailingSpaces(s, 1, Len(s)))

\* ------------------------------------------------------------------------
\* CacheManager
\* ------------------------------------------------------------------------
\* Queries are character sequences; several differ only in case/whitespace.
Queries == { <<"a">>, <<" ", "A">>, <<"b">>, <<"c">> }
Payloads == {"r1", "r2"}

\* _get_cache_key: md5 of the lower-cased, stripped query (md5 taken as
\* injective: the key is the normalised query itself)
CacheKey(query) == Strip(Lower(query))

Keys(c) == {c[i].key : i \in 1..Len(c)}
KeyIndex(c, k) == CHOOSE i \in 1..Len(c) : c[i].key = k

\* a faulty variant, kept for comparison: evict the most recently written entry
NewestIndex(c) ==
    CHOOSE i \in 1..Len(c) :
        /\ \A j \in 1..Len(c) : c[i].timestamp >= c[j].timestamp
        /\ \A j \in 1..(i - 1) : c[j].timestamp < c[i].timestamp

\* min(self.cache.keys(), key=timestamp): the first key, in dict order,
\* among those with the smallest timestamp
OldestIndex(c) ==
    CHOOSE i \in 1..Len(c) :
        /\ \A j \in 1..Len(c) : c[i].timestamp <= c[j].timestamp
        /\ \A j \in 1..(i - 1) : c[j].timestamp > c[i].timestamp

\* self.cache[key] = {...}: replace in place, or append a new key
DictStore(c, k, d, t) ==
    LET e == [key |-> k, data |-> d, timestamp |-> t]
    IN  IF k \in Keys(c) THEN [c EXCEPT ![KeyIndex(c, k)] = e] ELSE Append(c, e)

\* a faulty variant, kept for comparison: an entry exactly TTL old is still served
CacheGetInclusive(c, query, t, dur) ==
    LET k == CacheKey(query)
    IN  IF k \in Keys(c)
        THEN LET i == KeyIndex(c, k)
             IN  IF t - c[i].timestamp <= dur
                 THEN [cache |-> c, ret |-> c[i].data]
                 ELSE [cache |-> RemoveAt(c, i), ret |-> None]
        ELSE [cache |-> c, ret |-> None]

\* CacheManager.get: [cache |-> the cache afterwards, ret |-> the result]
CacheGet(c, query, t, dur) ==
    LET k == CacheKey(query)
    IN  IF k \in Keys(c)
        THEN LET i == KeyIndex(c, k)
             IN  IF t - c[i].timestamp < dur
                 THEN [cache |-> c, ret |-> c[i].data]
                 ELSE [cache |-> RemoveAt(c, i), ret |-> None]
        ELSE [cache |-> c, ret |-> None]

\* a faulty variant, kept for comparison: the capacity test off by one
AtCapacityOffByOne(c, max) == Len(c) > max

\* the capacity test of CacheManager.set
AtCapacity(c, max) == Len(c) >= max

\* CacheManager.set: the cache afterwards
CacheSet(c, query, d, t, max) ==
    LET k == CacheKey(query)
        c1 == IF AtCapacity(c, max) THEN RemoveAt(c, OldestIndex(c)) ELSE c
    IN  DictStore(c1, k, d, t)

CacheInit ==
    /\ cache = <<>>
    /\ max_size = CacheSize
    /\ duration = CacheDuration
    /\ now = 0
    /\ lastCall = [op |-> "none", ret |-> None, expired |-> FALSE]
    /\ setLog = [n |-> 0, first |-> <<>>, queries |-> {}, expiries |-> 0]

\* cache_manager.get(query); lastCall.expired records that the expiry branch ran
Get(query) ==
    LET r == CacheGet(cache, query, now, duration)
        gone == Len(r.cache) < Len(cache)
    IN  /\ cache' = r.cache
        /\ lastCall' = [op |-> "get", ret |-> r.ret, expired |-> gone]
        /\ setLog' = [setLog EXCEPT !.expiries = IF gone THEN 1 ELSE @]
        /\ UNCHANGED <<max_size, duration, now, notCache>>

\* cache_manager.set(query, d)
Set(query, d) ==
    /\ setLog.n < MaxSets
    /\ cache' = CacheSet(cache, query, d, now, max_size)
    /\ lastCall' = [op |-> "set", ret |-> None, expired |-> FALSE]
    /\ setLog' = [setLog EXCEPT !.n = @ + 1,
                                !.first = IF setLog.n = 0 THEN query ELSE @,
                                !.queries = @ \cup {query}]
    /\ UNCHANGED <<max_size, duration, now, notCache>>

\* the wall clock advances between calls
Tick ==
    /\ now < MaxTime
    /\ now' = now + 1
    /\ UNCHANGED <<cache, max_size, duration, lastCall, setLog, notCache>>

NextCache ==
    \/ \E q \in Queries : Get(q)
    \/ \E q \in Queries, d \in Payloads : Set(q, d)
    \/ Tick

\* ------------------------------------------------------------------------
\* Chunker
\* ------------------------------------------------------------------------
CHUNK_SIZE == 512       \* Config.CHUNK_SIZE, TheologyDocumentProcessor default
OVERLAP == 50           \* Config.OVERLAP, TheologyDocumentProcessor default
MIN_CHUNK_LEN == 50     \* a trimmed window shorter than this is skipped
MIN_CONTENT_LEN == 20   \* data_processor: trimmed content shorter than this

\* Documents: up to MaxRuns runs, each of spaces or of non-space characters.
RunLens == {10, 30, 76, 924}
RunChars == {"x", " "}
Run(c, n) == [i \in 1..n |-> c]

RECURSIVE Documents(_)
Documents(n) ==
    IF n = 0 THEN {<<>>}
    ELSE LET shorter == Documents(n - 1)
         IN  shorter \cup {d \o Run(c, len) :
                             d \in shorter, c \in RunChars, len \in RunLens}

\* --chunk_size / --overlap (data_processor main); overlap >= chunk_size included
ChunkSizes == {50, 100, CHUNK_SIZE}
Overlaps == {0, 10, OVERLAP, 100, 600}
Sources == {"a.txt", "b.md"}

\* content[i:i + size], i counted from 0
Slice(s, i, size) == SubSeq(s, i + 1, Min(i + size, Len(s)))

\* a faulty variant, kept for comparison: end_pos without the clamp to the content length
EndPosUnclamped(i, size, n) == i + size

\* min(i + self.chunk_size, content_length)
EndPos(i, size, n) == Min(i + size, n)

\* a faulty variant, kept for comparison: the id also depends on the time of
\* the call
ChunkIdStamped(source, i) == <<source, i, now>>

\* hashlib.md5(f"{source}_{i}"): the digest is taken as injective, and the
\* text "<source>_<i>" determines (source, i)
ChunkId(source, i) == <<source, i>>

\* the body of the for loop over range(0, content_length, step), from i on
RECURSIVE ChunkLoop(_, _, _, _, _, _)
ChunkLoop(s, source, size, step, i, chunks) ==
    IF i >= Len(s) THEN chunks
    ELSE LET text == Strip(Slice(s, i, size))
         IN  IF Len(text) < MIN_CHUNK_LEN
             THEN ChunkLoop(s, source, size, step, i + step, chunks)
             ELSE ChunkLoop(s, source, size, step, i + step,
                     Append(chunks,
                        [id |-> ChunkId(source, i),
                         content |-> text,
                         source |-> source,
                         start_pos |-> i,
                         end_pos |-> EndPos(i, size, Len(s)),
                         chunk_index |-> Len(chunks)]))

\* for i in range(0, content_length, chunk_size - overlap): range raises
\* ValueError for a zero step and is empty for a negative one
RangeLoop(s, source, size, ov) ==
    LET step == size - ov
    IN  IF step = 0 THEN [state |-> "raised", chunks |-> <<>>]
        ELSE IF step < 0 THEN [state |-> "returned", chunks |-> <<>>]
        ELSE [state |-> "returned",
              chunks |-> ChunkLoop(s, source, size, step, 0, <<>>)]

\* DocumentProcessor.chunk_document (main.py)
ChunkDocumentMain(s, source, size, ov) == RangeLoop(s, source, size, ov)

\* TheologyDocumentProcessor.chunk_document (data_processor.py)
ChunkDocumentDP(s, source, size, ov) ==
    IF Len(s) = 0 \/ Len(Strip(s)) < MIN_CONTENT_LEN
    THEN [state |-> "returned", chunks |-> <<>>]
    ELSE RangeLoop(s, source, size, ov)

ChunkIdle ==
    /\ processor = "none"
    /\ content = <<>>
    /\ chunk_size = CHUNK_SIZE
    /\ overlap = OVERLAP
    /\ chunkOut = [state |-> "idle", chunks |-> <<>>]

\* main.py takes chunk_size and overlap from Config; data_processor.py takes
\* them from the command line
ChunkInit ==
    /\ processor \in {"main", "data_processor"}
    /\ content \in Documents(MaxRuns)
    /\ chunk_size \in ChunkSizes
    /\ overlap \in Overlaps
    /\ processor = "main" => (chunk_size = CHUNK_SIZE /\ overlap = OVERLAP)
    /\ chunkOut = [state |-> "idle", chunks |-> <<>>]

ChunkMain(source) ==
    /\ processor = "main"
    /\ chunkOut.state = "idle"
    /\ chunkOut' = ChunkDocumentMain(content, source, chunk_size, overlap)
    /\ UNCHANGED <<processor, content, chunk_size, overlap, notChunk>>

ChunkDP(source) ==
    /\ processor = "data_processor"
    /\ chunkOut.state = "idle"
    /\ chunkOut' = ChunkDocumentDP(content, source, chunk_size, overlap)
    /\ UNCHANGED <<processor, content, chunk_size, overlap, notChunk>>

NextChunk ==
    \/ \E src \in Sources : ChunkMain(src)
    \/ \E src \in Sources : ChunkDP(src)

\* ------------------------------------------------------------------------
\* Vector index search and the retrieval orchestrator
\* ------------------------------------------------------------------------
INDEX_TYPE == "IVF_PQ"  \* Config.INDEX_TYPE
NLIST == 1024           \* Config.NLIST
NBITS == 8              \* Config.NBITS, bits per PQ code

\* Scores are in tenths: 3 stands for 0.3.
THRESHOLD == 3          \* the relevance threshold 0.3 of search
FLT_MAX == 1000         \* the score FAISS gives a result slot it could not fill
RealScores == {2, 3, 4, 9}
IndexTypes == {"IVF_PQ", "FLAT"}

\* IndexIVFPQ (create_index, metric L2 by default) reports distances in
\* ascending order and fills empty slots with (FLT_MAX, -1); IndexFlatIP
\* reports inner products in descending order and fills with (-FLT_MAX, -1).
InIndexOrder(kind, a, b) == IF kind = "IVF_PQ" THEN a <= b ELSE a >= b
PadScore(kind) == IF kind = "IVF_PQ" THEN FLT_MAX ELSE 0 - FLT_MAX

\* r hits in index order, no position reported twice
RECURSIVE Hits(_, _, _)
Hits(kind, ntotal, r) ==
    IF r = 0 THEN {<<>>}
    ELSE LET more == {p \in Hits(kind, ntotal, r - 1)
                             \X RealScores \X (0..(ntotal - 1)) :
                        /\ \A j \in 1..Len(p[1]) : p[1][j].idx # p[3]
                        /\ Len(p[1]) > 0 =>
                             InIndexOrder(kind, p[1][Len(p[1])].score, p[2])}
         IN  {Append(p[1], [score |-> p[2], idx |-> p[3]]) : p \in more}

Padded(h, n, kind) ==
    h \o [j \in 1..(n - Len(h)) |-> [score |-> PadScore(kind), idx |-> -1]]

\* self.index.search(query_vector, n): exactly n slots; the exact index
\* fills min(n, ntotal) of them, the approximate one possibly fewer
IndexSearch(ix, n) ==
    LET full == Min(n, ix.ntotal)
        counts == IF ix.kind = "IVF_PQ" THEN 0..full ELSE {full}
    IN  UNION {{Padded(h, n, ix.kind) : h \in Hits(ix.kind, ix.ntotal, r)} :
                 r \in counts}

\* the document store: passage i at position i
Passages(n) == [i \in 1..n |-> [id |-> i - 1]]

\* self.documents[idx]: a negative idx counts from the end, and an idx
\* below -len raises IndexError
ListItem(docs, idx) == IF idx >= 0 THEN docs[idx + 1] ELSE docs[Len(docs) + idx + 1]
ListItemRaises(docs, idx) == idx < 0 - Len(docs)

\* a faulty variant, kept for comparison: no relevance threshold
IsRelevantAnyScore(docs, c) == c.idx < Len(docs)

\* the test of search on one candidate
IsRelevant(docs, c) == c.idx < Len(docs) /\ c.score > THRESHOLD

\* the loop of search over zip(scores, indices), from candidate j on
RECURSIVE RelevantDocs(_, _, _, _)
RelevantDocs(docs, cands, j, acc) ==
    IF j > Len(cands) THEN [state |-> "returned", docs |-> acc]
    ELSE IF ~IsRelevant(docs, cands[j]) THEN RelevantDocs(docs, cands, j + 1, acc)
    ELSE IF ListItemRaises(docs, cands[j].idx)
         THEN [state |-> "raised", docs |-> <<>>]
    ELSE RelevantDocs(docs, cands, j + 1,
            Append(acc, [doc |-> ListItem(docs, cands[j].idx),
                         score |-> cands[j].score]))

\* relevant_docs[:top_k]
Truncate(s, k) == SubSeq(s, 1, Min(k, Len(s)))

\* VectorSearchEngine.search, given what the index answered
EngineSearch(docs, cands, k) ==
    LET r == RelevantDocs(docs, cands, 1, <<>>)
    IN  [state |-> r.state, k |-> k, cands |-> cands, docs |-> Truncate(r.docs, k)]

\* self.index = None: no index object
NoIndex == [kind |-> None, nlist |-> 0, trained |-> FALSE, ntotal |-> 0]

\* faiss.read_index: a populated index, as saved after a build
LoadedIndex(kind, n) ==
    [kind |-> kind,
     nlist |-> IF kind = "IVF_PQ" THEN NLIST ELSE 0,
     trained |-> TRUE,
     ntotal |-> n]

SearchIdle ==
    /\ index = NoIndex
    /\ documents = <<>>
    /\ searchOut = [state |-> "idle", k |-> 0, cands |-> <<>>, docs |-> <<>>]

\* an index and a document store as initialize loaded or built them; the two
\* files are loaded independently, so their sizes may differ
SearchInit ==
    /\ index \in {LoadedIndex(kind, n) : kind \in IndexTypes, n \in 1..MaxVectors}
    /\ documents \in {Passages(n) : n \in 0..MaxVectors}
    /\ searchOut = [state |-> "idle", k |-> 0, cands |-> <<>>, docs |-> <<>>]

\* search_engine.search(query, top_k): asks the index for top_k * 2
Search(k) ==
    /\ searchOut.state = "idle"
    /\ \E cands \in IndexSearch(index, k * 2) :
          searchOut' = EngineSearch(documents, cands, k)
    /\ UNCHANGED <<index, documents, notSearch>>

NextSearch == \E k \in 1..MaxK : Search(k)

\* ------------------------------------------------------------------------
\* Index build
\* ------------------------------------------------------------------------
SAMPLE_SIZE == 10       \* len(sample_documents) of build_sample_index
CLUSTER_DIVISOR == 10   \* data_processor: nlist = min(1024, n // 10)

Pow2(b) == 2 ^ b

\* the number of passages (vectors) a corpus yields
CorpusSizes == {0, 1, 9, 10, 11, 99, 100, 255, 256, 1023, 1024, 2559, 2560,
                10239, 10240, 20000}
BuildPaths == {"main_documents", "main_sample", "data_processor"}

\* the cluster count the index is created with
\*   main.py create_index: Config.NLIST
\*   data_processor.py build_faiss_index: min(1024, vectors.shape[0] // 10)
NlistFor(path, kind, n) ==
    IF kind # "IVF_PQ" THEN 0
    ELSE IF path = "data_processor" THEN Min(NLIST, n \div CLUSTER_DIVISOR)
    ELSE NLIST

\* a faulty variant, kept for comparison: vectors are added right after the index is created
AfterCreateAdd(path, kind) == "add"

\* what follows the creation of the index
\*   main.py train_and_add_vectors: hasattr(index, 'train') holds for every
\*     FAISS index, so train is called
\*   data_processor.py build_faiss_index: train in the IVF_PQ branch only
AfterCreate(path, kind) ==
    IF path = "data_processor" /\ kind # "IVF_PQ" THEN "add" ELSE "train"

\* index.train(vectors) raises: k-means needs at least as many training
\* points as centroids, for the nlist clusters and for the 2^nbits PQ codes
TrainRaises(ix, n) ==
    ix.kind = "IVF_PQ" /\ (n < ix.nlist \/ n < Pow2(NBITS))

\* index.add(vectors) raises on an index that needs training and has none
AddRaises(ix) == ~ix.trained

IsMainPath(path) == path \in {"main_documents", "main_sample"}

\* no FAISSIndexManager.search call yet
NoCall == [state |-> "idle", populated |-> FALSE, slots |-> 0, filled |-> 0]

\* the index holds searchable vectors: created, trained and added to
Populated(ix) == ix # NoIndex /\ ix.trained /\ ix.ntotal > 0

\* how many of the n result slots self.index.search fills: min(n, ntotal) on
\* the exact index, possibly fewer on the approximate one; an index without
\* vectors (created only, or untrained) fills none and reports no error
FilledCounts(ix, n) ==
    LET full == Min(n, ix.ntotal)
    IN  IF ix.kind = "IVF_PQ" THEN 0..full ELSE {full}

\* FAISSIndexManager.search: ValueError only when self.index is None
ManagerSearch(ix, n) ==
    IF ix = NoIndex
    THEN {[state |-> "raised", populated |-> FALSE, slots |-> n, filled |-> 0]}
    ELSE {[state |-> "returned", populated |-> Populated(ix), slots |-> n,
           filled |-> f] : f \in FilledCounts(ix, n)}

BuildIdle ==
    /\ is_trained = FALSE
    /\ build = [path |-> "none", kind |-> INDEX_TYPE, n |-> 0, pc |-> "idle"]
    /\ indexOps = <<>>
    /\ managerOut = NoCall

\* main.py builds with Config.INDEX_TYPE; data_processor.py with --index_type
BuildInit ==
    /\ index = NoIndex
    /\ documents = <<>>
    /\ searchOut = [state |-> "idle", k |-> 0, cands |-> <<>>, docs |-> <<>>]
    /\ is_trained = FALSE
    /\ indexOps = <<>>
    /\ managerOut = NoCall
    /\ build \in {b \in [path : BuildPaths, kind : IndexTypes,
                         n : CorpusSizes, pc : {"start"}] :
                    /\ IsMainPath(b.path) => b.kind = INDEX_TYPE
                    /\ b.path = "main_sample" => b.n = SAMPLE_SIZE}

\* build_index_from_documents falls back to the sample corpus when there are
\* no chunks; process_documents raises when there are no documents
StartBuild ==
    /\ build.pc = "start"
    /\ build' =
         IF build.n > 0 THEN [build EXCEPT !.pc = "create"]
         ELSE IF build.path = "main_documents"
              THEN [build EXCEPT !.path = "main_sample", !.n = SAMPLE_SIZE,
                                 !.pc = "create"]
              ELSE [build EXCEPT !.pc = "failed"]
    /\ UNCHANGED <<index, documents, searchOut, is_trained, indexOps, managerOut,
                   notBuild>>

\* self.index = self.create_index(dimension) / index = faiss.IndexIVFPQ(...)
CreateIndex ==
    /\ build.pc = "create"
    /\ index' = [kind |-> build.kind,
                 nlist |-> NlistFor(build.path, build.kind, build.n),
                 trained |-> build.kind # "IVF_PQ",
                 ntotal |-> 0]
    /\ indexOps' = <<>>
    /\ build' = [build EXCEPT !.pc = AfterCreate(build.path, build.kind)]
    /\ UNCHANGED <<documents, searchOut, is_trained, managerOut, notBuild>>

\* index.train(vectors); the exception of a failed training leaves the build
TrainIndex ==
    /\ build.pc = "train"
    /\ indexOps' = Append(indexOps, "train")
    /\ IF TrainRaises(index, build.n)
       THEN /\ build' = [build EXCEPT !.pc = "failed"]
            /\ UNCHANGED <<index, is_trained>>
       ELSE /\ index' = [index EXCEPT !.trained = TRUE]
            /\ is_trained' = (is_trained \/ IsMainPath(build.path))
            /\ build' = [build EXCEPT !.pc = "add"]
    /\ UNCHANGED <<documents, searchOut, managerOut, notBuild>>

\* index.add(vectors); main.py then sets self.documents = chunks
AddVectors ==
    /\ build.pc = "add"
    /\ indexOps' = Append(indexOps, "add")
    /\ IF AddRaises(index)
       THEN /\ build' = [build EXCEPT !.pc = "failed"]
            /\ UNCHANGED <<index, documents>>
       ELSE /\ index' = [index EXCEPT !.ntotal = @ + build.n]
            /\ documents' = IF IsMainPath(build.path)
                            THEN Passages(build.n) ELSE documents
            /\ build' = [build EXCEPT !.pc = "done"]
    /\ UNCHANGED <<searchOut, is_trained, managerOut, notBuild>>

\* faiss_manager.search(query_vector, k) on the manager of main.py, before
\* or after train_and_add_vectors (which runs without suspension)
SearchIndex(k) ==
    /\ IsMainPath(build.path)
    /\ build.pc \in {"start", "failed", "done"}
    /\ managerOut.state = "idle"
    /\ managerOut' \in ManagerSearch(index, k)
    /\ UNCHANGED <<index, documents, searchOut, is_trained, build, indexOps,
                   notBuild>>

NextBuild ==
    \/ StartBuild
    \/ CreateIndex
    \/ TrainIndex
    \/ AddVectors
    \/ \E k \in 1..MaxK : SearchIndex(k)

\* ------------------------------------------------------------------------
\* The /api/search handler (vector_search)
\* ------------------------------------------------------------------------
Requests == {1, 2}          \* request slots: requests that can be in flight

\* the requests sent, each question once: (question, top_k, use_cache); two
\* of the questions differ only in case and whitespace and share a cache key
RequestInputs ==
    {<<q, 1, TRUE>> : q \in {<<"a">>, <<" ", "A">>}}
        \cup {<<(<<"b">>), 2, uc>> : uc \in BOOLEAN}

\* Confidence is in thousandths: 1000 stands for 1.0.
CONFIDENCE_BOOST == 12      \* the factor 1.2, in tenths
CONFIDENCE_CAP == 1000      \* the cap 1.0 of min(avg_score * 1.2, 1.0)
CACHE_CONFIDENCE == 500     \* a result is cached when confidence_score > 0.5

\* the three kinds of answer text
NO_INFO == "no_info"        \* the fixed 'no information found' message
GENERATED == "generated"    \* response.choices[0].message.content
APOLOGY == "apology"        \* the message generate_answer returns on failure

NoResponse ==
    [status |-> 0, answer |-> None, sources |-> <<>>, confidence |-> 0,
     cache_hit |-> FALSE]

\* a slot without a request; search records whether a candidate of the
\* index answer cleared the threshold, gen whether the generator was invoked
\* and how it ended, deleted/wrote what the request did to the cache
IdleRequest ==
    [pc |-> "idle", question |-> <<>>, top_k |-> 0, use_cache |-> FALSE,
     search |-> "none", docs |-> <<>>, gen |-> "none", deleted |-> FALSE,
     wrote |-> FALSE, error |-> None, resp |-> NoResponse]

\* some candidate's score is above the relevance threshold
ClearsThreshold(cands) == \E j \in 1..Len(cands) : cands[j].score > THRESHOLD

RECURSIVE SumScores(_, _)
SumScores(docs, j) ==
    IF j > Len(docs) THEN 0 ELSE docs[j].score + SumScores(docs, j + 1)

\* a faulty variant, kept for comparison: the boosted mean without the cap
ConfidenceUncapped(docs) ==
    (SumScores(docs, 1) * CONFIDENCE_BOOST * 10) \div Len(docs)

\* avg_score = sum(scores) / len; confidence_score = min(avg_score * 1.2, 1.0)
\* (scores in tenths, the result in thousandths; exact for up to 3 passages)
Confidence(docs) ==
    Min((SumScores(docs, 1) * CONFIDENCE_BOOST * 10) \div Len(docs),
        CONFIDENCE_CAP)

\* a faulty variant, kept for comparison: a failure of the collaborator leaves generate_answer
GenerateAnswerRaises(ok) ==
    IF ok THEN [state |-> "returned", answer |-> GENERATED]
    ELSE [state |-> "raised", answer |-> None]

\* AnswerGenerator.generate_answer: the try/except around the OpenAI call
\* turns every failure into the apology text
GenerateAnswer(ok) ==
    IF ok THEN [state |-> "returned", answer |-> GENERATED]
    ELSE [state |-> "returned", answer |-> APOLOGY]

\* a faulty variant, kept for comparison: the cache operations suspend half-way
AwaitsAtCacheOps(pc) == pc \in {"generate", "get_del", "set_insert"}

\* where the handler suspends and the event loop may run another request:
\* only at await asyncio.to_thread(...) in generate_answer; search_engine.search
\* is awaited but never suspends, and CacheManager.get/set contain no await
AwaitsAt(pc) == pc = "generate"

\* the request may take its next step: it holds the event loop, or it is
\* suspended and the loop is free
Runs(r) ==
    IF AwaitsAt(requests[r].pc) THEN running = 0 ELSE running = r

\* who holds the event loop once request r has moved to position pc
Holder(r, pc) == IF AwaitsAt(pc) THEN 0 ELSE r

\* return SearchResponse(...)
Respond(rec, resp) == [rec EXCEPT !.pc = "done", !.resp = resp]

\* except Exception: raise HTTPException(status_code=500)
Fail(rec, err) ==
    [rec EXCEPT !.pc = "done", !.error = err,
                !.resp = [NoResponse EXCEPT !.status = 500]]

\* the handler of request r returns: its slot is free again, and the
\* request is kept for inspection until the next step of a handler
Return(r, rec) ==
    /\ requests' = [requests EXCEPT ![r] = IdleRequest]
    /\ completed' = rec
    /\ running' = 0

\* the handler of request r moves on to position pc
Goto(r, rec, pc) ==
    /\ requests' = [requests EXCEPT ![r] = [rec EXCEPT !.pc = pc]]
    /\ running' = Holder(r, pc)
    /\ completed' = IdleRequest

RequestIdle ==
    /\ requests = [r \in Requests |-> IdleRequest]
    /\ completed = IdleRequest
    /\ running = 0
    /\ served = {}

\* the deployments: (index type, vectors in the index, passages in the store)
Deployments ==
    {<<"IVF_PQ", 2, 1>>, <<"IVF_PQ", 2, 0>>, <<"FLAT", 2, 2>>, <<"FLAT", 2, 0>>}

\* the service after startup: an index and a document store loaded or built
\* (the two files are loaded independently, so their sizes may differ)
RequestInit ==
    /\ \E d \in Deployments :
          /\ index = LoadedIndex(d[1], d[2])
          /\ documents = Passages(d[3])
    /\ searchOut = [state |-> "idle", k |-> 0, cands |-> <<>>, docs |-> <<>>]
    /\ RequestIdle

\* POST /api/search arrives: the handler starts when the event loop is
\* free, in the first free slot
Receive(r, q, k, uc) ==
    /\ q \notin served
    /\ running = 0
    /\ requests[r].pc = "idle"
    /\ \A r2 \in Requests : r2 < r => requests[r2].pc # "idle"
    /\ Goto(r, [IdleRequest EXCEPT !.question = q, !.top_k = k,
                                   !.use_cache = uc],
            IF uc THEN "get" ELSE "search")
    /\ served' = served \cup {q}
    /\ UNCHANGED <<cache, now, notRequest>>

\* cache_manager.get, up to the expiry test; a hit marks the stored result
\* (cached_result['cache_hit'] = True) and returns it
GetCheck(r) ==
    /\ requests[r].pc = "get"
    /\ Runs(r)
    /\ LET key == CacheKey(requests[r].question)
       IN  IF key \notin Keys(cache)
           THEN Goto(r, requests[r], "search") /\ UNCHANGED cache
           ELSE LET i == KeyIndex(cache, key)
                IN  IF now - cache[i].timestamp < duration
                    THEN LET hit == [cache[i].data EXCEPT !.cache_hit = TRUE]
                         IN  /\ cache' = [cache EXCEPT ![i].data = hit]
                             /\ Return(r, Respond(requests[r],
                                   [status |-> 200,
                                    answer |-> hit.answer,
                                    sources |-> hit.sources,
                                    confidence |-> hit.confidence,
                                    cache_hit |-> TRUE]))
                    ELSE Goto(r, requests[r], "get_del") /\ UNCHANGED cache
    /\ UNCHANGED <<now, served, notRequest>>

\* cache_manager.get, the expired branch: del self.cache[key], a KeyError
\* when the key is not there
GetDelete(r) ==
    /\ requests[r].pc = "get_del"
    /\ Runs(r)
    /\ LET key == CacheKey(requests[r].question)
       IN  IF key \in Keys(cache)
           THEN /\ cache' = RemoveAt(cache, KeyIndex(cache, key))
                /\ Goto(r, [requests[r] EXCEPT !.deleted = TRUE], "search")
           ELSE /\ Return(r, Fail(requests[r], "KeyError"))
                /\ UNCHANGED cache
    /\ UNCHANGED <<now, served, notRequest>>

\* search_engine.search(question, top_k), then the empty-result return
SearchStep(r) ==
    /\ requests[r].pc = "search"
    /\ Runs(r)
    /\ \E cands \in IndexSearch(index, requests[r].top_k * 2) :
          LET out == EngineSearch(documents, cands, requests[r].top_k)
              rec == [requests[r] EXCEPT !.search =
                         IF ClearsThreshold(cands) THEN "cleared" ELSE "below"]
          IN  IF out.state = "raised"
              THEN Return(r, Fail(rec, "IndexError"))
              ELSE IF out.docs = <<>>
              THEN Return(r, Respond(rec,
                               [status |-> 200, answer |-> NO_INFO,
                                sources |-> <<>>, confidence |-> 0,
                                cache_hit |-> FALSE]))
              ELSE Goto(r, [rec EXCEPT !.docs = out.docs], "generate")
    /\ UNCHANGED <<cache, now, served, notRequest>>

\* generate_answer returns (ok: the collaborator answered), then the
\* confidence score, the result and the test for caching it
GenerateDone(r, ok) ==
    /\ requests[r].pc = "generate"
    /\ Runs(r)
    /\ LET g == GenerateAnswer(ok)
           rec == [requests[r] EXCEPT !.gen = IF ok THEN "ok" ELSE "failed"]
           confidence == Confidence(rec.docs)
           result == [status |-> 200, answer |-> g.answer,
                      sources |-> rec.docs, confidence |-> confidence,
                      cache_hit |-> FALSE]
       IN  IF g.state = "raised"
           THEN Return(r, Fail(rec, "UpstreamError"))
           ELSE IF rec.use_cache /\ confidence > CACHE_CONFIDENCE
           THEN Goto(r, [rec EXCEPT !.resp = result], "set_evict")
           ELSE Return(r, Respond(rec, result))
    /\ UNCHANGED <<cache, now, served, notRequest>>

\* cache_manager.set, the eviction: at capacity, the oldest entry goes
SetEvict(r) ==
    /\ requests[r].pc = "set_evict"
    /\ Runs(r)
    /\ cache' = IF AtCapacity(cache, max_size)
                THEN RemoveAt(cache, OldestIndex(cache)) ELSE cache
    /\ Goto(r, requests[r], "set_insert")
    /\ UNCHANGED <<now, served, notRequest>>

\* cache_manager.set, the insert: self.cache[key] = {data, timestamp}; then
\* return SearchResponse(**result)
SetInsert(r) ==
    /\ requests[r].pc = "set_insert"
    /\ Runs(r)
    /\ cache' = DictStore(cache, CacheKey(requests[r].question),
                          [answer |-> requests[r].resp.answer,
                           sources |-> requests[r].resp.sources,
                           confidence |-> requests[r].resp.confidence,
                           cache_hit |-> FALSE],
                          now)
    /\ Return(r, [requests[r] EXCEPT !.pc = "done", !.wrote = TRUE])
    /\ UNCHANGED <<now, served, notRequest>>

\* Each run of a handler between two suspensions reads the clock once (in
\* get, or in set), so the clock advancing during a run is the same as its
\* advancing just before or after it.
ClockTick ==
    /\ running = 0
    /\ now < MaxTime
    /\ now' = now + 1
    /\ completed' = IdleRequest
    /\ UNCHANGED <<cache, requests, running, served, notRequest>>

NextRequest ==
    \/ \E r \in Requests, in \in RequestInputs : Receive(r, in[1], in[2], in[3])
    \/ \E r \in Requests : GetCheck(r)
    \/ \E r \in Requests : GetDelete(r)
    \/ \E r \in Requests : SearchStep(r)
    \/ \E r \in Requests, ok \in BOOLEAN : GenerateDone(r, ok)
    \/ \E r \in Requests : SetEvict(r)
    \/ \E r \in Requests : SetInsert(r)
    \/ ClockTick

\* ------------------------------------------------------------------------
\* Corpus ingestion (load_documents_from_directory)
\* ------------------------------------------------------------------------
Loaders == {"main", "data_processor"}

\* a file: whether its suffix is a supported format, whether loading and
\* chunking it succeeds, and how many passages it yields
FileKinds == [supported : BOOLEAN, ok : BOOLEAN, passages : 0..2]

RECURSIVE FileLists(_)
FileLists(n) ==
    IF n = 0 THEN {<<>>}
    ELSE LET shorter == FileLists(n - 1)
         IN  shorter \cup {Append(fs, f) : fs \in shorter, f \in FileKinds}

\* the passages of file number pos: (file, index in the file)
FilePassages(pos, n) == [j \in 1..n |-> <<pos, j>>]

NoLoad ==
    [loader |-> "none", state |-> "idle", pos |-> 0, chunks |-> <<>>,
     errors |-> 0, total_files |-> 0, processed_files |-> 0,
     report |-> [passages |-> 0]]

IngestIdle ==
    /\ files = <<>>
    /\ ingest = NoLoad

\* chunks = [] / documents = [], the counters at 0, before the loop
IngestInit ==
    /\ files \in FileLists(MaxFiles)
    /\ \E l \in Loaders :
          ingest = [NoLoad EXCEPT !.loader = l, !.state = "loading", !.pos = 1]

\* one iteration of for file_path in directory.rglob('*'): a supported file
\* is loaded and chunked inside try/except Exception; its passages are added
\* only when that succeeded, a failure is logged with logger.error
\* (data_processor.py also counts total_files and processed_files)
LoadFile ==
    /\ ingest.state = "loading"
    /\ ingest.pos <= Len(files)
    /\ LET f == files[ingest.pos]
           counted == ingest.loader = "data_processor"
           seen == [ingest EXCEPT !.pos = @ + 1,
                                  !.total_files = IF counted THEN @ + 1 ELSE @]
       IN  ingest' =
             IF ~f.supported THEN seen
             ELSE IF f.ok
             THEN [seen EXCEPT
                     !.chunks = @ \o FilePassages(ingest.pos, f.passages),
                     !.processed_files = IF counted THEN @ + 1 ELSE @]
             ELSE [seen EXCEPT !.errors = @ + 1]
    /\ UNCHANGED <<files, notIngest>>

\* return chunks / documents; what is reported at the end is the number of
\* passages (the log line of data_processor.py, the build log of main.py)
ReturnChunks ==
    /\ ingest.state = "loading"
    /\ ingest.pos > Len(files)
    /\ ingest' = [ingest EXCEPT !.state = "returned",
                                !.report = [passages |-> Len(ingest.chunks)]]
    /\ UNCHANGED <<files, notIngest>>

NextIngest == LoadFile \/ ReturnChunks

\* ------------------------------------------------------------------------
\* Repeated chunking
\* ------------------------------------------------------------------------
\* data_processor.py puts "created_at": datetime.now().isoformat() into the
\* metadata of every chunk
Stamp(chunks, t) ==
    [j \in 1..Len(chunks) |-> chunks[j] @@ [created_at |-> t]]

\* chunk_document of the processor at hand, called at time t
ChunkDocument(source, t) ==
    IF processor = "main"
    THEN ChunkDocumentMain(content, source, chunk_size, overlap)
    ELSE LET r == ChunkDocumentDP(content, source, chunk_size, overlap)
         IN  [r EXCEPT !.chunks = Stamp(@, t)]

RechunkIdle == chunkCalls = <<>>

\* one processor and one document, as for a single call
RechunkInit ==
    /\ processor \in {"main", "data_processor"}
    /\ content \in Documents(MaxRuns - 1)
    /\ chunk_size \in ChunkSizes
    /\ overlap \in Overlaps
    /\ processor = "main" => (chunk_size = CHUNK_SIZE /\ overlap = OVERLAP)
    /\ chunkOut = [state |-> "idle", chunks |-> <<>>]
    /\ chunkCalls = <<>>

\* processor.chunk_document(content, source), for the first or second time
CallChunk(source) ==
    /\ Len(chunkCalls) < 2
    /\ chunkCalls' = Append(chunkCalls,
                        [source |-> source, at |-> now,
                         out |-> ChunkDocument(source, now)])
    /\ UNCHANGED <<now, chunkVars, notRechunk>>

\* time passes between the two calls
WaitBetweenCalls ==
    /\ Len(chunkCalls) = 1
    /\ now < MaxTime
    /\ now' = now + 1
    /\ UNCHANGED <<chunkCalls, chunkVars, notRechunk>>

NextRechunk ==
    \/ \E src \in Sources : CallChunk(src)
    \/ WaitBetweenCalls

\* ------------------------------------------------------------------------
\* Specifications
\* ------------------------------------------------------------------------
InitCache == CacheInit /\ ChunkIdle /\ SearchIdle /\ BuildIdle /\ RequestIdle /\ IngestIdle
    /\ RechunkIdle
SpecCache == InitCache /\ [][NextCache]_vars

InitChunk == ChunkInit /\ CacheInit /\ SearchIdle /\ BuildIdle /\ RequestIdle /\ IngestIdle
    /\ RechunkIdle
SpecChunk == InitChunk /\ [][NextChunk]_vars

InitSearch == SearchInit /\ CacheInit /\ ChunkIdle /\ BuildIdle /\ RequestIdle /\ IngestIdle
    /\ RechunkIdle
SpecSearch == InitSearch /\ [][NextSearch]_vars

InitBuild == BuildInit /\ CacheInit /\ ChunkIdle /\ RequestIdle /\ IngestIdle
    /\ RechunkIdle
SpecBuild == InitBuild /\ [][NextBuild]_vars

InitRequest == RequestInit /\ CacheInit /\ ChunkIdle /\ BuildIdle /\ IngestIdle
    /\ RechunkIdle
SpecRequest == InitRequest /\ [][NextRequest]_vars

InitIngest ==
    IngestInit /\ CacheInit /\ ChunkIdle /\ SearchIdle /\ BuildIdle /\ RequestIdle
        /\ RechunkIdle
SpecIngest == InitIngest /\ [][NextIngest]_vars

InitRechunk ==
    RechunkInit /\ CacheInit /\ SearchIdle /\ BuildIdle /\ RequestIdle /\ IngestIdle
SpecRechunk == InitRechunk /\ [][NextRechunk]_vars

\* ------------------------------------------------------------------------
\* Properties of the cache
\* ------------------------------------------------------------------------
Entries(c) == {c[i] : i \in 1..Len(c)}

\* C1: after any sequence of set and get calls from an empty cache, the
\* number of entries never exceeds max_size.
C1_CacheWithinCapacity == Len(cache) <= max_size

\* C1 witness: a set on a full cache (more sets than the capacity) has run
\* and the cache is exactly full.
C1_FullAfterEviction ==
    /\ lastCall.op = "set"
    /\ setLog.n > max_size
    /\ Len(cache) = max_size

\* A set with a new key on a full cache removes exactly one entry, one whose
\* inserted_at is smallest, and adds the new one; the rest is untouched.
SetNewKeyEvictsOldest ==
    \A q \in Queries, d \in Payloads :
        (Set(q, d) /\ CacheKey(q) \notin Keys(cache) /\ Len(cache) = max_size)
        => \E i \in 1..Len(cache) :
              /\ \A j \in 1..Len(cache) :
                    cache[i].timestamp <= cache[j].timestamp
              /\ Len(cache') = Len(cache)
              /\ Entries(cache') =
                    (Entries(cache) \ {cache[i]})
                    \cup {[key |-> CacheKey(q), data |-> d, timestamp |-> now]}

\* capacity+1 set calls so far and no entry removed by an expired read
InsertedCapacityPlusOne ==
    /\ setLog.n = max_size + 1
    /\ setLog.expiries = 0

\* the cache holds exactly capacity entries: every inserted query's but the
\* first one's
AllButFirstInserted ==
    /\ Len(cache) = max_size
    /\ CacheKey(setLog.first) \notin Keys(cache)
    /\ Keys(cache) = {CacheKey(q) : q \in setLog.queries \ {setLog.first}}

DistinctQueries == Cardinality(setLog.queries) = setLog.n
DistinctKeys == Cardinality({CacheKey(q) : q \in setLog.queries}) = setLog.n

\* C2 as stated: a set with a new key on a full cache evicts exactly the
\* entry with the smallest inserted_at, so capacity+1 distinct queries
\* inserted into an empty cache leave capacity entries, all but the first.
C2_DistinctQueriesLeaveAllButFirst ==
    /\ [][SetNewKeyEvictsOldest]_vars
    /\ []((InsertedCapacityPlusOne /\ DistinctQueries) => AllButFirstInserted)

\* C2 amended: the same, for capacity+1 queries whose cache keys (the
\* case-folded, trimmed queries) are pairwise distinct.
C2_DistinctKeysLeaveAllButFirst ==
    /\ [][SetNewKeyEvictsOldest]_vars
    /\ []((InsertedCapacityPlusOne /\ DistinctKeys) => AllButFirstInserted)

\* C2 witness: capacity+1 queries with distinct keys were inserted and the
\* last insert evicted the first.
C2_CapacityPlusOneInserted ==
    /\ lastCall.op = "set"
    /\ InsertedCapacityPlusOne
    /\ DistinctKeys
    /\ Len(cache) = max_size

\* C3: get returns the stored payload and leaves the cache unchanged while
\* now - inserted_at < TTL; from now - inserted_at >= TTL on it returns
\* absent and the entry is gone after the read; for a key that is not
\* present it returns absent and changes nothing.
C3_GetContract ==
    [][\A q \in Queries :
         Get(q) =>
           LET k == CacheKey(q)
               hit == {e \in Entries(cache) : e.key = k}
           IN  /\ hit = {} => (lastCall'.ret = None /\ cache' = cache)
               /\ \A e \in hit :
                    /\ now - e.timestamp < duration
                         => (lastCall'.ret = e.data /\ cache' = cache)
                    /\ now - e.timestamp >= duration
                         => /\ lastCall'.ret = None
                            /\ k \notin Keys(cache')
                            /\ Entries(cache') = Entries(cache) \ {e}]_vars

\* C3 witness: a read found its entry expired and removed it.
C3_ExpiredRead ==
    /\ lastCall.op = "get"
    /\ lastCall.expired
    /\ lastCall.ret = None
    /\ Len(cache) > 0

\* ------------------------------------------------------------------------
\* Properties of the chunker
\* ------------------------------------------------------------------------
Stride == chunk_size - overlap

\* the window starts 0, stride, 2*stride, ... below len(content)
WindowStarts ==
    IF Stride <= 0 \/ Len(content) = 0 THEN {}
    ELSE {k * Stride : k \in 0..((Len(content) - 1) \div Stride)}

\* the window at i keeps at least 50 characters after trimming
WindowKept(i) == Len(Strip(Slice(content, i, chunk_size))) >= MIN_CHUNK_LEN

StartPositions == [j \in 1..Len(chunkOut.chunks) |-> chunkOut.chunks[j].start_pos]

ChunkedWithPositiveStride == chunkOut.state = "returned" /\ overlap < chunk_size

C5_NonPositiveStrideRaises ==
    (chunkOut.state # "idle" /\ overlap >= chunk_size /\ Len(content) > 0)
        => chunkOut.state = "raised"

\* ------------------------------------------------------------------------
\* Properties of the search
\* ------------------------------------------------------------------------
HasPassage(pos) == pos >= 0 /\ pos < Len(documents)

\* C6: search skips, without raising, every candidate whose position has no
\* passage in the document store (outside 0..len(documents)-1, -1 included),
\* and every returned passage is the one stored at the position the index
\* reported for it.
C6_MissingPassagesSkipped ==
    searchOut.state # "idle" =>
        /\ searchOut.state = "returned"
        /\ \A j \in 1..Len(searchOut.docs) :
              \E i \in 1..Len(searchOut.cands) :
                 /\ HasPassage(searchOut.cands[i].idx)
                 /\ searchOut.docs[j].doc = documents[searchOut.cands[i].idx + 1]
                 /\ searchOut.docs[j].score = searchOut.cands[i].score

\* C7: the returned passages are in non-increasing score order, in both
\* index modes.
C7_ScoresNonIncreasing ==
    searchOut.state = "returned" =>
        \A j \in 1..(Len(searchOut.docs) - 1) :
            searchOut.docs[j].score >= searchOut.docs[j + 1].score

\* the candidates, in index order, that C8 says survive
RECURSIVE Survivors(_, _)
Survivors(cands, j) ==
    IF j > Len(cands) THEN <<>>
    ELSE IF cands[j].score >= THRESHOLD /\ HasPassage(cands[j].idx)
         THEN <<[doc |-> documents[cands[j].idx + 1], score |-> cands[j].score]>>
                 \o Survivors(cands, j + 1)
         ELSE Survivors(cands, j + 1)

\* C8: search asks for 2k candidates and returns exactly the first k, in
\* index order, of those whose score is not below 0.3 and whose position
\* has a passage.
C8_FirstKSurvivors ==
    searchOut.state # "idle" =>
        /\ searchOut.state = "returned"
        /\ Len(searchOut.cands) = 2 * searchOut.k
        /\ Len(searchOut.docs) <= searchOut.k
        /\ searchOut.docs = Truncate(Survivors(searchOut.cands, 1), searchOut.k)

\* ------------------------------------------------------------------------
\* Properties of the index build
\* ------------------------------------------------------------------------
ApproximateIndex == index # NoIndex /\ index.kind = "IVF_PQ"

\* C9: in IVF_PQ mode the cluster count the index is created and trained
\* with is at most the number of training vectors divided by 10, on every
\* build path.
C9_ClusterCountClamped ==
    (ApproximateIndex /\ build.pc # "idle")
        => index.nlist * CLUSTER_DIVISOR <= build.n

\* C10: on every index instance built in IVF_PQ mode train is called once
\* and before any add: the calls made on it are nothing yet, train, or
\* train then add; vectors are only in a trained index, and an index is
\* trained only by that one train call.
C10_TrainOnceBeforeAdd ==
    ApproximateIndex =>
        /\ indexOps \in {<<>>, <<"train">>, <<"train", "add">>}
        /\ index.ntotal > 0 => index.trained
        /\ index.trained => (Len(indexOps) > 0 /\ indexOps[1] = "train")
        /\ build.pc = "done" => (index.trained /\ index.ntotal = build.n)

\* C10 witness: an IVF_PQ build ran to its end, train then add.
C10_TrainedThenPopulated ==
    /\ ApproximateIndex
    /\ build.pc = "done"
    /\ indexOps = <<"train", "add">>
    /\ index.ntotal > 0

\* C11: FAISSIndexManager.search fails with an error, returning no results,
\* whenever the index is not populated: before any build or load, and after a
\* build that created the index but failed in training or adding.
C11_SearchFailsUnlessPopulated ==
    (managerOut.state # "idle" /\ ~managerOut.populated)
        => (managerOut.state = "raised" /\ managerOut.filled = 0)

\* ------------------------------------------------------------------------
\* Properties of the /api/search handler
\* ------------------------------------------------------------------------
Returned == completed.pc = "done"
ReturnedResponse == Returned /\ completed.resp.status = 200

\* C12: the confidence score of every response is in [0,1]: it is
\* min(mean of the returned result scores * 1.2, 1.0) when at least one
\* passage was retrieved, and exactly 0.0 when none was.
C12_ConfidenceInUnitInterval ==
    ReturnedResponse =>
        LET resp == completed.resp
            n == Len(resp.sources)
            boosted == SumScores(resp.sources, 1) * CONFIDENCE_BOOST * 10
        IN  /\ resp.confidence >= 0
            /\ resp.confidence <= CONFIDENCE_CAP
            /\ n = 0 => resp.confidence = 0
            /\ n > 0 =>
                 IF boosted >= CONFIDENCE_CAP * n
                 THEN resp.confidence = CONFIDENCE_CAP
                 ELSE resp.confidence * n = boosted

\* C12 witness: a response with two passages of different scores whose
\* boosted mean is below the cap.
C12_MeanOfTwoBelowCap ==
    /\ ReturnedResponse
    /\ Len(completed.resp.sources) = 2
    /\ completed.resp.sources[1].score # completed.resp.sources[2].score
    /\ completed.resp.confidence > 0
    /\ completed.resp.confidence < CONFIDENCE_CAP

NoInfoResponse ==
    /\ completed.resp.status = 200
    /\ completed.resp.answer = NO_INFO
    /\ completed.resp.sources = <<>>
    /\ completed.error = None

BelowThreshold == Returned /\ completed.search = "below"

\* C13 as stated: when no candidate clears the relevance threshold the
\* request completes as a normal response with empty sources and the 'no
\* information found' answer, the generator is not invoked and the request
\* leaves the cache unchanged.
C13_NoInfoLeavesCacheUnchanged ==
    BelowThreshold =>
        /\ NoInfoResponse
        /\ completed.gen = "none"
        /\ ~completed.wrote
        /\ ~completed.deleted

\* C13 amended: the same, except that the request writes nothing to the
\* cache: its initial lookup may still have removed the expired entry
\* stored under its own key.
C13_NoInfoWritesNothing ==
    BelowThreshold =>
        /\ NoInfoResponse
        /\ completed.gen = "none"
        /\ ~completed.wrote
        /\ completed.deleted =>
              (completed.use_cache
                 /\ CacheKey(completed.question) \notin Keys(cache))

\* C13 witness: a request with caching on, whose candidates were all below
\* the threshold, returned while the cache held an entry.
C13_NothingRelevantFound ==
    /\ BelowThreshold
    /\ NoInfoResponse
    /\ completed.use_cache
    /\ Len(cache) > 0

\* a request is between the two halves of a cache operation
InSet(r) == requests[r].pc = "set_insert"
InGet(r) == requests[r].pc = "get_del"

C16_GeneratorFailureDegrades ==
    (Returned /\ completed.gen = "failed") =>
        /\ completed.error = None
        /\ completed.resp.status = 200
        /\ completed.resp.answer = APOLOGY
        /\ completed.resp.sources = completed.docs
        /\ Len(completed.docs) > 0

\* C16 witness: a request whose generation failed has returned.
C16_FailedGenerationReturned ==
    /\ Returned
    /\ completed.gen = "failed"
    /\ completed.resp.status = 200

\* C19: the cache never holds a response whose answer is the generator's
\* failure message, so a repeated query whose generation failed invokes the
\* generator again instead of being served from the cache.
C19_NoFailureMessageCached ==
    /\ \A i \in 1..Len(cache) : cache[i].data.answer # APOLOGY
    /\ (ReturnedResponse /\ completed.resp.answer = APOLOGY)
          => completed.gen = "failed"

\* ------------------------------------------------------------------------
\* More properties of the cache
\* ------------------------------------------------------------------------
OtherEntries(c, k) == {e \in Entries(c) : e.key # k}

\* C18: set on a key that is already present replaces that key's payload,
\* resets its inserted_at to the current time and leaves the entry of every
\* other key unchanged, also when the cache is at capacity.
C18_OverwriteKeepsOtherEntries ==
    [][\A q \in Queries, d \in Payloads :
          (Set(q, d) /\ CacheKey(q) \in Keys(cache))
             => /\ [key |-> CacheKey(q), data |-> d, timestamp |-> now]
                    \in Entries(cache')
                /\ OtherEntries(cache', CacheKey(q))
                    = OtherEntries(cache, CacheKey(q))]_vars

\* ------------------------------------------------------------------------
\* Properties of the ingestion
\* ------------------------------------------------------------------------
\* the passages of the loadable files from position pos on, in order
RECURSIVE LoadablePassages(_)
LoadablePassages(pos) ==
    IF pos > Len(files) THEN <<>>
    ELSE (IF files[pos].supported /\ files[pos].ok
          THEN FilePassages(pos, files[pos].passages) ELSE <<>>)
            \o LoadablePassages(pos + 1)

FailedFiles == {i \in 1..Len(files) : files[i].supported /\ ~files[i].ok}

\* C15: when loading a file fails the build is not aborted: the passages of
\* every other file, before or after the failing one, are all in the result,
\* and the number of skipped files is reported.
C15_FailuresSkippedAndCounted ==
    (ingest.state = "returned" /\ FailedFiles # {}) =>
        /\ ingest.chunks = LoadablePassages(1)
        /\ "skipped" \in DOMAIN ingest.report
        /\ ingest.report.skipped = Cardinality(FailedFiles)

\* ------------------------------------------------------------------------
\* Properties of repeated chunking
\* ------------------------------------------------------------------------
CallPairs == (1..Len(chunkCalls)) \X (1..Len(chunkCalls))

====
